---- MODULE Spec2Model ----
(***************************************************************************)
(* A model of the fn-item crate (src/src/lib.rs): the fn_item! macro, the  *)
(* ImplFnItem! macro, the private proof type IsFnItem<P, F> and the        *)
(* blanket implementations of FnItem::call for argument tuples of 0..9     *)
(* elements.  The crate is a compile-time mechanism, so the compiler's     *)
(* phases (macro expansion, type checking, bound checking, instantiation   *)
(* of FnItem::call) are steps of the state machine, followed by the        *)
(* evaluation of the expanded expression.                                  *)
(***************************************************************************)
EXTENDS Integers, Sequences, FiniteSets, TLC

VARIABLES
    prog,      \* the program being built: the fn_item! argument and its consumer
    phase,     \* position in the build / evaluation of that program
    tokTy,     \* the type of the token: proof parameters, placeholder, callable
    trace,     \* calls and evaluations performed while evaluating the expansion
    evals,     \* how many times the macro argument has been evaluated
    rtSteps,   \* evaluation steps performed at run time (not by the const evaluator)
    why,       \* why the build was rejected ("" while it is not)
    func,      \* the capture-free closure a token wraps (the Func of its proof)
    ncalls,    \* calls made through FnItem::call so far
    last,      \* the latest call: its arguments, its result, the counter before it
    counter,   \* the static counter a wrapped closure's body may increment
    wtok,      \* per worker: its copy of the token, or NoToken
    wframe,    \* per worker: the call it is in or has last completed
    sigInv,    \* the ImplFnItem! invocation being expanded
    sigPhase,  \* "invoked", "reinvoked" (the anonymous rule's output), "expanded"
    sigOut,    \* the type the invocation expands to
    userBound, \* the FnItem bound the consumer writes itself on a named parameter
    pexpr,     \* the expression wrapped for the function pointer example
    layout,    \* the address the build gives each function's code
    ptrs,      \* function pointers created so far, by role
    pphase,    \* position in the function pointer example
    plast      \* the latest call through the made pointer: input and outcome

macroVars == <<prog, phase, tokTy, trace, evals, rtSteps, why>>
callVars == <<func, ncalls, last, counter>>
concVars == <<wtok, wframe>>
sigVars == <<sigInv, sigPhase, sigOut, userBound>>
ptrVars == <<pexpr, layout, ptrs, pphase, plast>>
vars == <<macroVars, callVars, concVars, sigVars, ptrVars>>

(***************************************************************************)
(* Types.  A type is a record [kind, caps, site, arity]:                   *)
(*   closure: the anonymous type of a closure expression; caps is its      *)
(*            capture set and site the closure expression it belongs to    *)
(*            (a closure literal written in a macro argument is            *)
(*            transcribed once per use of $e, each a closure of its own);  *)
(*   fndef:   the zero-sized type of a function item;                      *)
(*   fnptr:   a function pointer type fn(..) -> R.                         *)
(***************************************************************************)
MaxCaptures == 1

CaptureKinds == {"unit", "i32", "string", "rawmarker"}

CaptureSets == {c \in SUBSET CaptureKinds : Cardinality(c) <= MaxCaptures}

Arities == {0, 1}

NoTy == [kind |-> "none", caps |-> {}, site |-> 0, arity |-> 0]

FnPtrTy(n) == [kind |-> "fnptr", caps |-> {}, site |-> 0, arity |-> n]

\* Size and alignment of a captured variable, and its marker traits.
CapSize(c) == CASE c = "i32" -> 4 [] c = "string" -> 24 [] OTHER -> 0
CapAlign(c) == CASE c = "i32" -> 4 [] c = "string" -> 8 [] OTHER -> 1
CapCopy(c) == c # "string"
CapSendSync(c) == c # "rawmarker"

RECURSIVE SumSize(_)
SumSize(cs) ==
    IF cs = {} THEN 0
    ELSE LET c == CHOOSE x \in cs : TRUE IN CapSize(c) + SumSize(cs \ {c})

MaxOf(S) == CHOOSE x \in S : \A y \in S : y <= x

\* size_of::<T>() and align_of::<T>()
SizeOf(t) ==
    CASE t.kind = "closure" -> SumSize(t.caps)
      [] t.kind = "fnptr" -> 8
      [] OTHER -> 0

AlignOf(t) ==
    CASE t.kind = "closure" -> MaxOf({1} \cup {CapAlign(c) : c \in t.caps})
      [] t.kind = "fnptr" -> 8
      [] OTHER -> 1

IsCopy(t) == t.kind # "none" /\ \A c \in t.caps : CapCopy(c)
IsSendSync(t) == t.kind # "none" /\ \A c \in t.caps : CapSendSync(c)
IsFnPtr(t) == t.kind = "fnptr"
\* T: Fn(A1, .., An) -> R
Callable(t, n) == t.kind \in {"closure", "fndef", "fnptr"} /\ t.arity = n

\* An expression coerces to the function pointer type p when it is one, or is
\* a function item or a closure without captures, of the same signature.
CoercesTo(t, p) ==
    \/ t = p
    \/ /\ IsFnPtr(p)
       /\ t.arity = p.arity
       /\ \/ t.kind = "fndef"
          \/ t.kind = "closure" /\ t.caps = {}

(***************************************************************************)
(* The programs: an expression handed to fn_item! and the consumer that    *)
(* receives the token.  An expression is a closure literal, a variable     *)
(* holding a closure, a function item, or a value of function pointer type.*)
(***************************************************************************)
Exprs ==
    {[form |-> f, caps |-> c, arity |-> n] :
        f \in {"closure", "closure_var"}, c \in CaptureSets, n \in Arities}
    \cup {[form |-> f, caps |-> {}, arity |-> n] :
        f \in {"fn_item", "fn_ptr"}, n \in Arities}

\* The type of the expression e at the site-th use of $e in the expansion.
TypeOfExpr(e, site) ==
    CASE e.form = "closure" ->
            [kind |-> "closure", caps |-> e.caps, site |-> site, arity |-> e.arity]
      [] e.form = "closure_var" ->
            [kind |-> "closure", caps |-> e.caps, site |-> 0, arity |-> e.arity]
      [] e.form = "fn_item" ->
            [kind |-> "fndef", caps |-> {}, site |-> 0, arity |-> e.arity]
      [] OTHER -> FnPtrTy(e.arity)

NoConsumer == -1

\* consumer: the arity n of the signature in the consumer's ImplFnItem![Fn(..)],
\*           or NoConsumer when the token is bound without an expected type;
\* ctx:      whether the macro is evaluated at run time or in a const item;
\* calls:    whether the consumer's body instantiates FnItem::call;
\* via:      whether the token comes from fn_item! or is assembled by hand
\*           from the hidden module, with proof parameters privP and privF.
MacroProgs ==
    {[e |-> e, consumer |-> k, ctx |-> x, calls |-> c, via |-> "macro",
      privP |-> NoTy, privF |-> NoTy] :
        e \in Exprs, k \in Arities \cup {NoConsumer},
        x \in {"runtime", "const"}, c \in BOOLEAN}

PrivateProgs ==
    {[e |-> e, consumer |-> e.arity, ctx |-> "runtime", calls |-> TRUE,
      via |-> "private", privP |-> FnPtrTy(e.arity), privF |-> TypeOfExpr(f, 2)] :
        e \in {x \in Exprs : x.form = "fn_item"},
        f \in {x \in Exprs : x.form # "closure_var"}}

\* A const item cannot call a closure, and a call needs a consumer.
Progs ==
    {p \in MacroProgs \cup PrivateProgs :
        p.calls => (p.ctx = "runtime" /\ p.consumer # NoConsumer)}

(***************************************************************************)
(* fn_item!: the expansion                                                 *)
(*   match Option::None::<Infallible> {                                    *)
(*       None => (assert_is_fn_item(), coerce_to_fn_ptr($e), $e),          *)
(*       Some(e @ _) => fix_types(e, fn_addr_eq),                          *)
(*   }                                                                     *)
(***************************************************************************)
Scrutinee == "None"

\* The elements of the first arm's tuple, in evaluation order.
FirstArm == <<"assert_is_fn_item", "coerce_to_fn_ptr", "store">>

SecondArm == <<"fix_types">>

MatchArmSome(s) == SecondArm
MatchArm(s) == IF s = "None" THEN FirstArm ELSE SecondArm

\* The functions of the hidden module that are const fn.
IsConstFnNoCoerce(f) == f \in {"assert_is_fn_item", "fix_types"}
IsConstFn(f) == f \in {"assert_is_fn_item", "coerce_to_fn_ptr", "fix_types"}

\* How many times evaluating an element of the arm evaluates $e.
EvaluatesExpr(el) == IF el \in {"coerce_to_fn_ptr", "store"} THEN 1 ELSE 0

\* The P that coerce_to_fn_ptr($e) is inferred at: the pointer type the
\* consumer's PhantomData<P> expects, else the type of the argument itself.
InferP(p) ==
    IF p.consumer # NoConsumer THEN FnPtrTy(p.consumer) ELSE TypeOfExpr(p.e, 1)

\* fix_types<P, F>(e: Infallible, _: fn(P, fn()) -> bool)
\*     -> (IsFnItem<P, F>, PhantomData<P>, F)
\* The type both arms of the match are unified at.
FixTypesLoose(P, F) == [P1 |-> P, F1 |-> [F EXCEPT !.site = 1], P2 |-> P, F3 |-> F]
FixTypes(P, F) == [P1 |-> P, F1 |-> F, P2 |-> P, F3 |-> F]

\* fn_addr_eq<T: FnPtr, U: FnPtr> only coerces to fn(P, fn()) -> bool for a
\* function pointer type P.
FixTypesAcceptsAny(P) == TRUE
FixTypesAccepts(P) == IsFnPtr(P)

\* coerce_to_fn_ptr<P: Copy>(_: P): the argument must coerce to P.
CoerceAccepts(t, P) == IsCopy(P) /\ CoercesTo(t, P)

NoTokTy == [P1 |-> NoTy, F1 |-> NoTy, P2 |-> NoTy, F3 |-> NoTy]

(***************************************************************************)
(* impl FnItem<(T..), R> for IsFnItem<P, Func>: the where clause.          *)
(***************************************************************************)
\* PartialEq + Eq + PartialOrd + Ord + Hash + Debug + fmt::Pointer: of the
\* types here only function pointers implement them all.
HasPointerTraits(P) == IsFnPtr(P)

ImplHoldsNoMarkers(P, Func, n) ==
    /\ HasPointerTraits(P)
    /\ Callable(P, n)
    /\ Callable(Func, n)
ImplHolds(P, Func, n) ==
    /\ HasPointerTraits(P)
    /\ IsSendSync(P) /\ IsCopy(P) /\ Callable(P, n)
    /\ IsSendSync(Func) /\ IsCopy(Func) /\ Callable(Func, n)

\* The third element of ImplFnItem![Fn(..)]: impl Send + Sync + Copy + Fn(..)
ThirdHolds(F, n) == IsSendSync(F) /\ IsCopy(F) /\ Callable(F, n)

\* The const block of FnItem::call.
CallAsserts(Func) == SizeOf(Func) = 0 /\ AlignOf(Func) = 1

(***************************************************************************)
(* The build and the evaluation of one program.                            *)
(***************************************************************************)
InitMacro ==
    /\ prog \in Progs
    /\ phase = "typeck"
    /\ tokTy = NoTokTy
    /\ trace = <<>>
    /\ evals = 0
    /\ rtSteps = 0
    /\ why = ""

Reject(reason) ==
    /\ phase' = "rejected"
    /\ why' = reason

\* Type checking of the expansion: both arms must have one type.
TypeCheck ==
    /\ phase = "typeck"
    /\ prog.via = "macro"
    /\ LET P == InferP(prog)
           F == TypeOfExpr(prog.e, 2)
       IN IF CoerceAccepts(TypeOfExpr(prog.e, 1), P) /\ FixTypesAccepts(P)
          THEN /\ tokTy' = FixTypes(P, F)
               /\ phase' = "bounds"
               /\ why' = why
          ELSE /\ Reject("coercion")
               /\ tokTy' = tokTy
    /\ UNCHANGED <<prog, trace, evals, rtSteps>>
    /\ UNCHANGED <<callVars, concVars, sigVars, ptrVars>>

\* A token assembled by hand: (assert_is_fn_item::<P, F>(), PhantomData::<P>, e).
TypeCheckPrivate ==
    /\ phase = "typeck"
    /\ prog.via = "private"
    /\ tokTy' = [P1 |-> prog.privP, F1 |-> prog.privF,
                 P2 |-> FnPtrTy(prog.consumer), F3 |-> TypeOfExpr(prog.e, 2)]
    /\ phase' = "bounds"
    /\ UNCHANGED <<prog, trace, evals, rtSteps, why>>
    /\ UNCHANGED <<callVars, concVars, sigVars, ptrVars>>

\* The consumer's parameter type, ImplFnItem![Fn(..)], against the token's.
BoundCheck ==
    /\ phase = "bounds"
    /\ IF prog.consumer = NoConsumer
          \/ /\ tokTy.P2 = FnPtrTy(prog.consumer)
             /\ ImplHolds(tokTy.P1, tokTy.F1, prog.consumer)
             /\ ThirdHolds(tokTy.F3, prog.consumer)
       THEN phase' = "mono" /\ why' = why
       ELSE Reject("bound")
    /\ UNCHANGED <<prog, tokTy, trace, evals, rtSteps>>
    /\ UNCHANGED <<callVars, concVars, sigVars, ptrVars>>

\* Instantiation of FnItem::call evaluates its const block.
Monomorphize ==
    /\ phase = "mono"
    /\ IF prog.calls /\ ~CallAsserts(tokTy.F1)
       THEN Reject("assert")
       ELSE phase' = "eval" /\ why' = why
    /\ UNCHANGED <<prog, tokTy, trace, evals, rtSteps>>
    /\ UNCHANGED <<callVars, concVars, sigVars, ptrVars>>

\* One element of the arm the match selects; in a const item every call
\* must be to a const fn.
EvalStep ==
    /\ phase = "eval"
    /\ prog.via = "macro"
    /\ LET arm == MatchArm(Scrutinee)
           el == arm[Len(trace) + 1]
       IN IF prog.ctx = "const" /\ el # "store" /\ ~IsConstFn(el)
          THEN /\ Reject("nonconst")
               /\ UNCHANGED <<trace, evals, rtSteps>>
          ELSE /\ trace' = Append(trace, el)
               /\ evals' = evals + EvaluatesExpr(el)
               /\ rtSteps' = rtSteps + (IF prog.ctx = "runtime" THEN 1 ELSE 0)
               /\ phase' = IF Len(trace') = Len(arm) THEN "token" ELSE "eval"
               /\ why' = why
    /\ UNCHANGED <<prog, tokTy>>
    /\ UNCHANGED <<callVars, concVars, sigVars, ptrVars>>

EvalPrivate ==
    /\ phase = "eval"
    /\ prog.via = "private"
    /\ trace' = <<"assert_is_fn_item", "store">>
    /\ evals' = 1
    /\ rtSteps' = rtSteps + 1
    /\ phase' = "token"
    /\ UNCHANGED <<prog, tokTy, why>>
    /\ UNCHANGED <<callVars, concVars, sigVars, ptrVars>>

\* The consumer runs FnItem::call on the token's first element.
CallToken ==
    /\ phase = "token"
    /\ prog.calls
    /\ phase' = "called"
    /\ UNCHANGED <<prog, tokTy, trace, evals, rtSteps, why>>
    /\ UNCHANGED <<callVars, concVars, sigVars, ptrVars>>


(***************************************************************************)
(* FnItem::call, generated by impl_tuples! for tuples of 0..9 elements:    *)
(* its const block asserts that Func has size 0 and alignment 1, and its   *)
(* body casts a reference to the unit value to a reference to Func and     *)
(* calls it with the elements of the argument tuple.                       *)
(***************************************************************************)
MaxTupleArity == 9

MaxArg == 1

MaxCalls == 3

(***************************************************************************)
(* The closure of the crate's example, |s| s.parse::<u32>().unwrap(): a    *)
(* string is a sequence of characters; parsing accepts an optional plus    *)
(* sign and at least one decimal digit and fails on overflow of u32;       *)
(* unwrap panics on failure.                                               *)
(***************************************************************************)
Digits == <<"0", "1", "2", "3", "4", "5", "6", "7", "8", "9">>

IsDigit(ch) == \E d \in 1..10 : Digits[d] = ch

DigitVal(ch) == (CHOOSE d \in 1..10 : Digits[d] = ch) - 1

\* A u32 is kept as hi * 100000 + lo, with lo < 100000.
U32(n) == [ok |-> TRUE, hi |-> n \div 100000, lo |-> n % 100000]

Panic == [ok |-> FALSE, hi |-> 0, lo |-> 0]

\* Above u32::MAX = 42949 * 100000 + 67295.
ExceedsU32(hi, lo) == hi > 42949 \/ (hi = 42949 /\ lo > 67295)

\* The digits of s folded from the left on top of the value hi, lo; Panic
\* on a character that is no digit or on overflow.
RECURSIVE ParseDigits(_, _, _)
ParseDigits(s, hi, lo) ==
    IF s = <<>> THEN [ok |-> TRUE, hi |-> hi, lo |-> lo]
    ELSE IF ~IsDigit(Head(s)) THEN Panic
    ELSE LET l == lo * 10 + DigitVal(Head(s))
             h == hi * 10 + (l \div 100000)
         IN IF ExceedsU32(h, l % 100000) THEN Panic
            ELSE ParseDigits(Tail(s), h, l % 100000)

ParseUnwrap(s) ==
    LET digits == IF s # <<>> /\ Head(s) = "+" THEN Tail(s) ELSE s
    IN IF digits = <<>> THEN Panic ELSE ParseDigits(digits, 0, 0)

\* Bodies of capture-free closures: "weigh" is pure and depends on the
\* position of every argument; "tally" increments a static counter and
\* returns its previous value.
Bodies == {"weigh", "tally"}

Closures ==
    {[arity |-> n, body |-> b, caps |-> {}] : n \in 0..(MaxTupleArity + 1), b \in Bodies}

\* The type of a closure value.
FuncTy(f) == [kind |-> "closure", caps |-> f.caps, site |-> 0, arity |-> f.arity]

RECURSIVE Weigh(_)
Weigh(args) ==
    IF args = <<>> THEN 0
    ELSE Len(args) * args[Len(args)] + Weigh(SubSeq(args, 1, Len(args) - 1))

\* Argument tuples of n elements: all zero, one non-zero element, ascending.
ArgTuples(n) ==
    {[i \in 1..n |-> 0], [i \in 1..n |-> i]}
    \cup {[i \in 1..n |-> IF i = k THEN v ELSE 0] : k \in 1..n, v \in 1..MaxArg}

\* Calling the closure f directly with the arguments args, the static
\* counter being c: the value returned and the counter afterwards.
Invoke(f, args, c) ==
    CASE f.body = "tally" -> [result |-> c, counter |-> c + 1]
      [] f.body = "parse" -> [result |-> ParseUnwrap(args[1].chars), counter |-> c]
      [] OTHER -> [result |-> Weigh(args), counter |-> c]

\* The tuple implementations impl_tuples! generates.
HasImpl(n) == n \in 0..MaxTupleArity

\* The reference conjured from &(): the only value of the zero-sized Func.
Conjure(Func) == Func

CallReversed(Func, args, c) ==
    Invoke(Conjure(Func), [i \in 1..Len(args) |-> args[Len(args) + 1 - i]], c)
CallTwice(Func, args, c) ==
    Invoke(Conjure(Func), args, Invoke(Conjure(Func), args, c).counter)
\* FnItem::call: the tuple pattern binds the elements in order and the
\* conjured closure is called with them once.
Call(Func, args, c) ==
    LET t == [i \in 1..Len(args) |-> args[i]]
    IN Invoke(Conjure(Func), t, c)

NoCall == [args |-> <<>>, result |-> -1, before |-> -1]

InitCall ==
    /\ func \in Closures
    /\ ncalls = 0
    /\ last = NoCall
    /\ counter = 0

\* One call through the token: F::call(args).
CallItem ==
    /\ HasImpl(func.arity)
    /\ ncalls < MaxCalls
    /\ \E args \in ArgTuples(func.arity) :
         LET r == Call(func, args, counter)
         IN /\ last' = [args |-> args, result |-> r.result, before |-> counter]
            /\ counter' = r.counter
    /\ ncalls' = ncalls + 1
    /\ UNCHANGED func
    /\ UNCHANGED <<macroVars, concVars, sigVars, ptrVars>>

(***************************************************************************)
(* Copies of one token used by several workers.  FnItem has the            *)
(* supertraits Send + Sync + Copy, and IsFnItem derives Clone and Copy, so *)
(* a consumer generic over F: FnItem may hand a copy to every worker.      *)
(* A worker's call is two steps, the binding of the argument tuple and the *)
(* run of the closure's body, so that calls of different workers overlap.  *)
(***************************************************************************)
NumWorkers == 2

ConcArity == 1

Workers == 1..NumWorkers

\* Closures whose proof may have been assembled through the hidden module:
\* they may have captures.
ConcFuncs ==
    {[arity |-> n, body |-> b, caps |-> c] :
        n \in 0..ConcArity, b \in Bodies, c \in CaptureSets}

NoToken == [made |-> FALSE, P |-> NoTy, Func |-> [arity |-> 0, body |-> "", caps |-> {}]]

\* The token's first element, IsFnItem<P, Func>(PhantomData): all it holds
\* is its two type parameters.
Token(f) == [made |-> TRUE, P |-> FnPtrTy(f.arity), Func |-> f]

\* derive(Clone, Copy): a copy is the value itself.
CopyToken(t) == t

IdleFrame == [pc |-> "idle", args |-> <<>>, result |-> -1]

InitConc ==
    /\ func \in ConcFuncs
    /\ ncalls = 0
    /\ last = NoCall
    /\ counter = 0
    /\ wtok = [w \in Workers |-> NoToken]
    /\ wframe = [w \in Workers |-> IdleFrame]
    /\ prog = CHOOSE p \in Progs : TRUE
    /\ phase = "off"
    /\ tokTy = NoTokTy
    /\ trace = <<>>
    /\ evals = 0
    /\ rtSteps = 0
    /\ why = ""
    /\ sigInv = "off" /\ sigPhase = "off" /\ sigOut = "off" /\ userBound = "off"
    /\ pexpr = "off" /\ layout = "off" /\ ptrs = "off" /\ pphase = "off"
    /\ plast = "off"

\* The consumer, generic over F: FnItem<A, R>, gives worker w a copy.
Share(w) ==
    /\ ~wtok[w].made
    /\ ImplHolds(FnPtrTy(func.arity), FuncTy(func), func.arity)
    /\ wtok' = [wtok EXCEPT ![w] = CopyToken(Token(func))]
    /\ UNCHANGED <<func, ncalls, last, counter, wframe>>
    /\ UNCHANGED <<macroVars, sigVars, ptrVars>>

\* Worker w starts F::call(args) on its copy: the call is instantiated (its
\* const block holds) and the tuple's elements are bound.
Enter(w) ==
    /\ wtok[w].made
    /\ wframe[w].pc # "entered"
    /\ ncalls < MaxCalls
    /\ CallAsserts(FuncTy(wtok[w].Func))
    /\ \E args \in ArgTuples(wtok[w].Func.arity) :
         wframe' = [wframe EXCEPT ![w] = [pc |-> "entered", args |-> args, result |-> -1]]
    /\ ncalls' = ncalls + 1
    /\ UNCHANGED <<func, last, counter, wtok>>
    /\ UNCHANGED <<macroVars, sigVars, ptrVars>>

\* Worker w's call runs the body and returns.
Body(w) ==
    /\ wframe[w].pc = "entered"
    /\ LET r == Call(wtok[w].Func, wframe[w].args, counter)
       IN /\ wframe' = [wframe EXCEPT ![w].pc = "returned", ![w].result = r.result]
          /\ counter' = r.counter
    /\ UNCHANGED <<func, ncalls, last, wtok>>
    /\ UNCHANGED <<macroVars, sigVars, ptrVars>>

NextConc == \E w \in Workers : Share(w) \/ Enter(w) \/ Body(w)

SpecConc == InitConc /\ [][NextConc]_vars

(***************************************************************************)
(* ImplFnItem!: two rules.  The first takes a type for the token's first   *)
(* element, a colon and a signature, and transcribes the signature twice:  *)
(* as a function pointer type and as an impl Send + Sync + Copy + Fn       *)
(* bound.  The second takes a signature alone and invokes the macro again  *)
(* with impl FnItem of that signature as the first element's type.         *)
(***************************************************************************)
MaxSigArgs == 2

ArgTypes == {"u32", "&'a str", "&'b str"}

RetTypes == {"absent", "u32", "&'a str"}

\* The optional for<..> of a signature.
Quants ==
    {[present |-> FALSE, lts |-> <<>>],
     [present |-> TRUE, lts |-> <<>>],
     [present |-> TRUE, lts |-> <<"'a">>],
     [present |-> TRUE, lts |-> <<"'a", "'b">>]}

ArgLists == UNION {[1..n -> ArgTypes] : n \in 0..MaxSigArgs}

Sigs == {[quant |-> q, args |-> a, ret |-> r] : q \in Quants, a \in ArgLists, r \in RetTypes}

NoQuant == [present |-> FALSE, lts |-> <<>>]

\* The type written before the colon: none, a generic parameter, or the
\* impl FnItem type the second rule writes.
NoName == [kind |-> "none", quant |-> NoQuant, args |-> <<>>, ret |-> "absent"]
ParamName == [kind |-> "param", quant |-> NoQuant, args |-> <<>>, ret |-> "absent"]

Invocation(name, sig) ==
    [name |-> name, quant |-> sig.quant, args |-> sig.args, ret |-> sig.ret]

\* First rule: $F : for<..> Fn(..) -> R
NamedRule(inv) ==
    [FI |-> inv.name,
     P |-> [quant |-> inv.quant, args |-> inv.args, ret |-> inv.ret],
     F |-> [markers |-> {"Send", "Sync", "Copy"},
            quant |-> inv.quant, args |-> inv.args, ret |-> inv.ret]]

\* Second rule: for<..> Fn(..) -> R, rewritten to
\* ImplFnItem![impl for<..> FnItem<(..), R>: for<..> Fn(..) -> R]
AnonRuleUnquantified(inv) ==
    [name |-> [kind |-> "impl", quant |-> NoQuant, args |-> inv.args, ret |-> inv.ret],
     quant |-> inv.quant, args |-> inv.args, ret |-> inv.ret]
AnonRule(inv) ==
    [name |-> [kind |-> "impl", quant |-> inv.quant, args |-> inv.args, ret |-> inv.ret],
     quant |-> inv.quant, args |-> inv.args, ret |-> inv.ret]

\* A return type left out is the unit type, in fn(..), in Fn(..) and in
\* FnItem<A, R = ()>.
RetOf(r) == IF r = "absent" THEN "()" ELSE r

\* The lifetime a type mentions, if any.
LifetimeOf(t) ==
    CASE t = "&'a str" -> {"'a"}
      [] t = "&'b str" -> {"'b"}
      [] OTHER -> {}

\* The type t with the lifetimes lts put to 'static.
AtStatic(t, lts) ==
    IF LifetimeOf(t) # {} /\ \A l \in LifetimeOf(t) : \E i \in 1..Len(lts) : lts[i] = l
    THEN "&'static str"
    ELSE t

\* What a consumer that names the parameter writes in its where clause: the
\* signature again or, for a signature that uses a quantified lifetime, the
\* signature at 'static without the for<..>, which the token's first
\* element implements as well.
Instantiated(sig) ==
    [quant |-> NoQuant,
     args |-> [i \in 1..Len(sig.args) |-> AtStatic(sig.args[i], sig.quant.lts)],
     ret |-> AtStatic(sig.ret, sig.quant.lts)]

UserBounds(sig) ==
    IF Instantiated(sig).args # sig.args THEN {sig, Instantiated(sig)} ELSE {sig}

NoBound == [quant |-> NoQuant, args |-> <<>>, ret |-> "none"]

NoOut == [FI |-> NoName,
          P |-> [quant |-> NoQuant, args |-> <<>>, ret |-> "none"],
          F |-> [markers |-> {}, quant |-> NoQuant, args |-> <<>>, ret |-> "none"]]

InitSig ==
    /\ \E sig \in Sigs, named \in BOOLEAN :
         /\ sigInv = [written |-> sig,
                      cur |-> Invocation(IF named THEN ParamName ELSE NoName, sig)]
         /\ userBound \in (IF named THEN UserBounds(sig) ELSE {NoBound})
    /\ sigPhase = "invoked"
    /\ sigOut = NoOut
    /\ prog = CHOOSE p \in Progs : TRUE
    /\ phase = "off"
    /\ tokTy = NoTokTy
    /\ trace = <<>>
    /\ evals = 0
    /\ rtSteps = 0
    /\ why = ""
    /\ func = "off" /\ ncalls = 0 /\ last = NoCall /\ counter = 0
    /\ wtok = "off" /\ wframe = "off"
    /\ pexpr = "off" /\ layout = "off" /\ ptrs = "off" /\ pphase = "off"
    /\ plast = "off"

\* The invocation has a type before the colon: the first rule transcribes it.
ExpandNamed ==
    /\ sigPhase \in {"invoked", "reinvoked"}
    /\ sigInv.cur.name.kind # "none"
    /\ sigOut' = NamedRule(sigInv.cur)
    /\ sigPhase' = "expanded"
    /\ UNCHANGED <<sigInv, userBound>>
    /\ UNCHANGED <<macroVars, callVars, concVars, ptrVars>>

\* The invocation is a signature alone: the second rule invokes the macro again.
ExpandAnon ==
    /\ sigPhase = "invoked"
    /\ sigInv.cur.name.kind = "none"
    /\ sigInv' = [sigInv EXCEPT !.cur = AnonRule(sigInv.cur)]
    /\ sigPhase' = "reinvoked"
    /\ UNCHANGED <<sigOut, userBound>>
    /\ UNCHANGED <<macroVars, callVars, concVars, ptrVars>>

NextSig == ExpandNamed \/ ExpandAnon

SpecSig == InitSig /\ [][NextSig]_vars

\* The FnItem bound on the token's first element: the one the expansion
\* carries, or the one the consumer wrote on its named parameter.
FnItemBoundOf(out, ub) ==
    IF out.FI.kind = "impl"
    THEN [quant |-> out.FI.quant, args |-> out.FI.args, ret |-> out.FI.ret]
    ELSE ub

(***************************************************************************)
(* The crate's example: make_fn_ptr takes a token for the signature        *)
(* for<'a> Fn(&'a str) -> u32 and returns |s| F::call((s,)) as a           *)
(* fn(&str) -> u32.  Each function's code has the address the build gives  *)
(* it; different functions may or may not share one.                       *)
(***************************************************************************)
NumAddrs == 2

MaxLen == 4

Addrs == 1..NumAddrs

Alphabet == {"4", "1", "5", "x"}

\* Every string of up to MaxLen characters, and four more: a bare sign,
\* signed digits, u32::MAX and u32::MAX + 1.
Strings ==
    UNION {[1..n -> Alphabet] : n \in 0..MaxLen}
    \cup {<<"+">>, <<"+", "4", "1">>,
          <<"4", "2", "9", "4", "9", "6", "7", "2", "9", "5">>,
          <<"4", "2", "9", "4", "9", "6", "7", "2", "9", "6">>}

Lifetimes == {"static", "local"}

\* The wrapped closure, |s| s.parse::<u32>().unwrap()
ParseClosure == [arity |-> 1, body |-> "parse", caps |-> {}]

\* The signature the example's consumers are declared with.
ExampleSig ==
    [quant |-> [present |-> TRUE, lts |-> <<"'a">>], args |-> <<"&'a str">>, ret |-> "u32"]

\* The FnItem bound the example writes: on F in the where clause of the
\* named form, on the inner function's F in the anonymous form.
ExampleBoundAtStatic == [quant |-> NoQuant, args |-> <<"&'static str">>, ret |-> "u32"]
ExampleBound ==
    [quant |-> [present |-> TRUE, lts |-> <<"'a">>], args |-> <<"&'a str">>, ret |-> "u32"]

\* The parameter type of make_fn_ptr in the named and the anonymous form.
DeclaredTy(consumer) ==
    IF consumer = "named"
    THEN NamedRule(Invocation(ParamName, ExampleSig))
    ELSE NamedRule(AnonRule(Invocation(NoName, ExampleSig)))

\* Whether a bound on one string argument holds for a string of lifetime lt.
BoundCovers(b, lt) ==
    /\ Len(b.args) = 1
    /\ \/ b.quant.present /\ b.args[1] = "&" \o b.quant.lts[1] \o " str"
       \/ b.args[1] = "&'static str" /\ lt = "static"

\* The functions with code of their own: the callable as written outside
\* the macro, the closures the two uses of $e transcribe a literal to, and
\* the closure make_fn_ptr returns.
PtrForms == {"closure", "closure_var", "fn_item"}

CodeAt(form, site) ==
    IF form = "closure" THEN (IF site = 1 THEN "site1" ELSE "site2") ELSE "f"

CodesOf(form) ==
    IF form = "closure" THEN {"f", "site1", "site2", "wrapper"} ELSE {"f", "wrapper"}

NullPtr == [addr |-> 0, code |-> "none"]

\* A function coerced to a function pointer: the address of its code.
Reify(code, lay) == [addr |-> lay[code], code |-> code]

\* coerce_to_fn_ptr<P: Copy>(_: P) -> PhantomData<P>: the pointer is
\* dropped, only its type is kept.
CoerceKeepsPointer(ptr) == ptr
CoerceToFnPtr(ptr) == NullPtr

\* Running the code a pointer points to on the string s.
RunCode(code, form, s) ==
    IF code = "wrapper"
    THEN Call(ParseClosure, <<s>>, 0).result
    ELSE Invoke(ParseClosure, <<s>>, 0).result

NoPtrs == [coerced |-> NullPtr, kept |-> NullPtr, direct |-> NullPtr, made |-> NullPtr]

NoRun == [input |-> <<>>, lt |-> "none", out |-> Panic, ran |-> FALSE]

InitPtr ==
    /\ \E form \in PtrForms, consumer \in {"named", "anon"} :
         /\ pexpr = [form |-> form, consumer |-> consumer]
         /\ layout \in [CodesOf(form) -> Addrs]
    /\ ptrs = NoPtrs
    /\ pphase = "start"
    /\ plast = NoRun
    /\ prog = CHOOSE p \in Progs : TRUE
    /\ phase = "off"
    /\ tokTy = NoTokTy
    /\ trace = <<>>
    /\ evals = 0
    /\ rtSteps = 0
    /\ why = ""
    /\ func = "off" /\ ncalls = 0 /\ last = NoCall /\ counter = 0
    /\ wtok = "off" /\ wframe = "off"
    /\ sigInv = "off" /\ sigPhase = "off" /\ sigOut = "off" /\ userBound = "off"

\* fn_item!(e): the first use of e is coerced and handed to coerce_to_fn_ptr.
Wrap ==
    /\ pphase = "start"
    /\ LET p == Reify(CodeAt(pexpr.form, 1), layout)
       IN ptrs' = [ptrs EXCEPT !.coerced = p, !.kept = CoerceToFnPtr(p)]
    /\ pphase' = "wrapped"
    /\ UNCHANGED <<pexpr, layout, plast>>
    /\ UNCHANGED <<macroVars, callVars, concVars, sigVars>>

\* The same callable coerced to a function pointer outside the macro.
CoerceDirect ==
    /\ pphase = "wrapped"
    /\ ptrs' = [ptrs EXCEPT !.direct = Reify("f", layout)]
    /\ pphase' = "coerced"
    /\ UNCHANGED <<pexpr, layout, plast>>
    /\ UNCHANGED <<macroVars, callVars, concVars, sigVars>>

\* make_fn_ptr(token): the token must fit the declared parameter type, in
\* the anonymous form its first element must fit the inner function's
\* bound, and the returned closure must be callable with a string of any
\* lifetime.
MakeFnPtr ==
    /\ pphase = "coerced"
    /\ LET ty == DeclaredTy(pexpr.consumer)
       IN IF /\ ty.P = ExampleSig
             /\ {"Send", "Sync", "Copy"} \subseteq ty.F.markers
             /\ ImplHolds(FnPtrTy(1), FuncTy(ParseClosure), Len(ty.P.args))
             /\ IF pexpr.consumer = "named"
                THEN ty.FI = ParamName
                ELSE FnItemBoundOf(ty, NoBound) = ExampleBound
             /\ \A lt \in Lifetimes : BoundCovers(ExampleBound, lt)
          THEN /\ ptrs' = [ptrs EXCEPT !.made = Reify("wrapper", layout)]
               /\ pphase' = "made"
          ELSE /\ pphase' = "rejected"
               /\ ptrs' = ptrs
    /\ UNCHANGED <<pexpr, layout, plast>>
    /\ UNCHANGED <<macroVars, callVars, concVars, sigVars>>

\* fn_ptr(s): the example's one call of the pointer it made.
CallPtr ==
    /\ pphase = "made"
    /\ pphase' = "called"
    /\ \E s \in Strings, lt \in Lifetimes :
         plast' = [input |-> s, lt |-> lt, ran |-> TRUE,
                   out |-> RunCode(ptrs.made.code, pexpr.form, [chars |-> s, lt |-> lt])]
    /\ UNCHANGED <<pexpr, layout, ptrs>>
    /\ UNCHANGED <<macroVars, callVars, concVars, sigVars>>

NextPtr == Wrap \/ CoerceDirect \/ MakeFnPtr \/ CallPtr

SpecPtr == InitPtr /\ [][NextPtr]_vars

(***************************************************************************)
(* Specifications of the build of one fn_item! program, and of calls       *)
(* through one token.                                                      *)
(***************************************************************************)
InitMacroAll ==
    /\ InitMacro
    /\ func = "off" /\ ncalls = 0 /\ last = NoCall /\ counter = 0
    /\ wtok = "off" /\ wframe = "off"
    /\ sigInv = "off" /\ sigPhase = "off" /\ sigOut = "off" /\ userBound = "off"
    /\ pexpr = "off" /\ layout = "off" /\ ptrs = "off" /\ pphase = "off"
    /\ plast = "off"

NextMacro ==
    \/ TypeCheck
    \/ TypeCheckPrivate
    \/ BoundCheck
    \/ Monomorphize
    \/ EvalStep
    \/ EvalPrivate
    \/ CallToken

SpecMacro == InitMacroAll /\ [][NextMacro]_vars

InitCallAll ==
    /\ InitCall
    /\ prog = CHOOSE p \in Progs : TRUE
    /\ phase = "off"
    /\ tokTy = NoTokTy
    /\ trace = <<>>
    /\ evals = 0
    /\ rtSteps = 0
    /\ why = ""
    /\ wtok = "off" /\ wframe = "off"
    /\ sigInv = "off" /\ sigPhase = "off" /\ sigOut = "off" /\ userBound = "off"
    /\ pexpr = "off" /\ layout = "off" /\ ptrs = "off" /\ pphase = "off"
    /\ plast = "off"

NextCall == CallItem

SpecCall == InitCallAll /\ [][NextCall]_vars

(***************************************************************************)
(* Properties.                                                             *)
(***************************************************************************)

\* C1: for a capture-free closure of 0 to 9 arguments, FnItem::call on the
\* token with an argument tuple returns what calling the closure directly
\* with the tuple's elements returns.
CallMatchesDirect ==
    ncalls > 0 =>
        /\ func.arity <= MaxTupleArity
        /\ Len(last.args) = func.arity
        /\ last.result = Invoke(func, last.args, last.before).result

CallMatchesDirectWitness ==
    /\ ncalls > 0
    /\ func = [arity |-> MaxTupleArity, body |-> "weigh", caps |-> {}]
    /\ last.args = [i \in 1..MaxTupleArity |-> i]
    /\ last.result = 285

\* C2 as stated: the function pointer obtained from the wrapped token has
\* the address of the callable coerced independently outside the macro.
PointerAddressEqual ==
    pphase \in {"made", "called"} => ptrs.made.addr = ptrs.direct.addr

\* C2 amended: the token keeps the pointer's type and not its address; the
\* pointer make_fn_ptr returns is that of its own closure, and calling it
\* gives what calling the wrapped callable directly gives.
PointerBehaviourEqual ==
    /\ pphase # "start" =>
         /\ ptrs.coerced = [addr |-> layout[CodeAt(pexpr.form, 1)],
                            code |-> CodeAt(pexpr.form, 1)]
         /\ ptrs.kept = NullPtr
    /\ pphase \in {"made", "called"} =>
         ptrs.made = [addr |-> layout["wrapper"], code |-> "wrapper"]
    /\ plast.ran =>
         plast.out = Invoke(ParseClosure,
                            <<[chars |-> plast.input, lt |-> plast.lt]>>, 0).result

PointerBehaviourEqualWitness ==
    /\ pexpr.form = "fn_item"
    /\ plast.ran
    /\ plast.out.ok
    /\ ptrs.made.addr # ptrs.direct.addr
    /\ ptrs.direct.addr = ptrs.coerced.addr

\* C3: fn_item! of a closure that captures a variable is rejected when the
\* program is built: no token type, no evaluation and no run-time step
\* ever exists for it.
CapturingRejected ==
    (prog.via = "macro" /\ prog.e.caps # {}) =>
        /\ phase \in {"typeck", "rejected"}
        /\ phase = "rejected" => why = "coercion"
        /\ tokTy = NoTokTy
        /\ trace = <<>> /\ evals = 0 /\ rtSteps = 0

CapturingRejectedWitness ==
    /\ prog.via = "macro"
    /\ prog.e.form = "closure"
    /\ prog.e.caps = {"unit"}
    /\ phase = "rejected"

\* C4: every copy a worker holds is the token itself, of a type that is
\* Copy, Send and Sync; calls of different workers overlap without
\* disturbing one another: a pure closure's result depends on its own
\* arguments only, and every run of a counting closure is counted once and
\* sees a count of its own.
TokenSharedFreely ==
    /\ \A w \in Workers : wtok[w].made =>
         /\ wtok[w] = Token(func)
         /\ IsCopy(FuncTy(wtok[w].Func)) /\ IsSendSync(FuncTy(wtok[w].Func))
    /\ \A w \in Workers : wframe[w].pc = "returned" =>
         IF func.body = "tally"
         THEN wframe[w].result \in 0..(counter - 1)
         ELSE wframe[w].result = Invoke(func, wframe[w].args, 0).result
    /\ \A v, w \in Workers :
         (v # w /\ func.body = "tally"
          /\ wframe[v].pc = "returned" /\ wframe[w].pc = "returned") =>
             wframe[v].result # wframe[w].result
    /\ counter = IF func.body = "tally"
                 THEN ncalls - Cardinality({w \in Workers : wframe[w].pc = "entered"})
                 ELSE 0

TokenSharedFreelyWitness ==
    /\ func.body = "tally"
    /\ \A w \in Workers : wframe[w].pc = "returned"
    /\ counter = MaxCalls

\* C5: n calls of a wrapped counting closure through FnItem::call make its
\* side effect happen exactly n times, the k-th call seeing k-1 earlier
\* ones; a call of a pure closure has no side effect.
EffectOncePerCall ==
    IF func.body = "tally"
    THEN /\ counter = ncalls
         /\ ncalls > 0 => last.result = ncalls - 1
    ELSE counter = 0

EffectOncePerCallWitness ==
    /\ func = [arity |-> 0, body |-> "tally", caps |-> {}]
    /\ ncalls = 2
    /\ counter = 2

\* C6: the example's consumers, declared with for<'a> Fn(&'a str) -> u32
\* in the named and in the anonymous form, accept the wrapped parsing
\* closure, and the pointer they return gives, for a string of any
\* lifetime, what the closure gives: 4115 for "4115".
HigherRankedConsumer ==
    /\ pphase # "rejected"
    /\ plast.ran =>
         /\ plast.out = ParseUnwrap(plast.input)
         /\ plast.input = <<"4", "1", "1", "5">> => plast.out = U32(4115)

HigherRankedConsumerWitness ==
    /\ pexpr.consumer = "anon"
    /\ plast.ran
    /\ plast.lt = "local"
    /\ plast.input = <<"4", "1", "1", "5">>
    /\ plast.out = [ok |-> TRUE, hi |-> 0, lo |-> 4115]

\* C7 as stated: in both forms the FnItem bound on the first element and
\* the function pointer type carry the same quantifier, argument types and
\* return type.
BothHalvesFromOneSignature ==
    sigPhase = "expanded" =>
        LET b == FnItemBoundOf(sigOut, userBound)
        IN /\ b.quant = sigOut.P.quant
           /\ b.args = sigOut.P.args
           /\ RetOf(b.ret) = RetOf(sigOut.P.ret)

\* C7 amended: in both forms the function pointer type and the impl Fn
\* bound carry the written signature; in the anonymous form so does the
\* generated impl FnItem type; in the named form the first element is the
\* written parameter, whose FnItem bound the expansion does not generate.
HalvesFromOneSignature ==
    sigPhase = "expanded" =>
        /\ sigOut.P = sigInv.written
        /\ sigOut.F = [markers |-> {"Send", "Sync", "Copy"},
                       quant |-> sigInv.written.quant,
                       args |-> sigInv.written.args,
                       ret |-> sigInv.written.ret]
        /\ IF userBound = NoBound
           THEN /\ sigOut.FI.kind = "impl"
                /\ sigOut.FI.quant = sigOut.P.quant
                /\ sigOut.FI.args = sigOut.P.args
                /\ RetOf(sigOut.FI.ret) = RetOf(sigOut.P.ret)
           ELSE sigOut.FI = ParamName

HalvesFromOneSignatureWitness ==
    /\ sigPhase = "expanded"
    /\ userBound = NoBound
    /\ sigOut.FI.kind = "impl"
    /\ sigOut.P = ExampleSig

\* C8: fn_item! of a capture-free closure in a const item, passed to a
\* const fn taking ImplFnItem![Fn(..)], builds: no step is refused by the
\* const evaluator and none is left to run time.
ConstContextBuilds ==
    (/\ prog.via = "macro" /\ prog.ctx = "const"
     /\ prog.e.form = "closure" /\ prog.e.caps = {}
     /\ prog.consumer = prog.e.arity) =>
        /\ phase # "rejected"
        /\ rtSteps = 0

ConstContextBuildsWitness ==
    /\ prog.via = "macro" /\ prog.ctx = "const"
    /\ prog.e = [form |-> "closure", caps |-> {}, arity |-> 0]
    /\ prog.consumer = 0
    /\ phase = "token"
    /\ Len(trace) = 3

\* C9: an evaluation of the expansion runs the first arm: the proof, then
\* the macro argument handed to coerce_to_fn_ptr, then the macro argument
\* again as the third element; fix_types never runs.
FirstArmInOrder ==
    (prog.via = "macro" /\ phase \in {"eval", "token", "called"}) =>
        /\ Len(trace) <= 3
        /\ \A i \in 1..Len(trace) :
             trace[i] = <<"assert_is_fn_item", "coerce_to_fn_ptr", "store">>[i]
        /\ evals = IF Len(trace) <= 1 THEN 0 ELSE Len(trace) - 1
        /\ phase \in {"token", "called"} => (Len(trace) = 3 /\ evals = 2)

FirstArmInOrderWitness ==
    /\ prog.via = "macro"
    /\ prog.e.form = "fn_item"
    /\ phase = "called"
    /\ evals = 2

\* C10 as stated: every token fn_item! produces has consistent proof
\* parameters and a callable of size 0 and alignment 1, and the assertions
\* of FnItem::call fail only for a proof assembled through the hidden module.
ProofConsistentZeroSized ==
    /\ (prog.via = "macro" /\ phase \in {"token", "called"}) =>
         /\ tokTy.P1 = tokTy.P2 /\ tokTy.F1 = tokTy.F3
         /\ IsFnPtr(tokTy.P1)
         /\ SizeOf(tokTy.F1) = 0 /\ AlignOf(tokTy.F1) = 1
    /\ why = "assert" => prog.via = "private"

\* C10 amended: every token fn_item! produces has consistent proof
\* parameters; its callable has size 0 and alignment 1 when the macro
\* argument is a closure or a function item, and then the assertions never
\* fail; for an argument of function pointer type the token is produced
\* with a callable of pointer size, and the assertions fail when
\* FnItem::call is instantiated.
ProofConsistent ==
    /\ (prog.via = "macro" /\ phase \in {"token", "called"}) =>
         /\ tokTy.P1 = tokTy.P2 /\ tokTy.F1 = tokTy.F3
         /\ tokTy.F3 = TypeOfExpr(prog.e, 2)
         /\ IsFnPtr(tokTy.P1)
         /\ IF prog.e.form = "fn_ptr"
            THEN ~prog.calls /\ SizeOf(tokTy.F1) > 0
            ELSE SizeOf(tokTy.F1) = 0 /\ AlignOf(tokTy.F1) = 1
    /\ (why = "assert" /\ prog.via = "macro") => prog.e.form = "fn_ptr"

ProofConsistentWitness ==
    /\ prog.via = "macro"
    /\ prog.e = [form |-> "closure", caps |-> {}, arity |-> 1]
    /\ phase = "called"

====
